---- MODULE Spec2Model ----
(***************************************************************************)
(* Leica (scn) BigTIFF detection: _openslide_try_leica and                 *)
(* parse_xml_description, as a state machine.  One run of the detector on  *)
(* one container/description pair; the program position is pc, the locals  *)
(* of both functions are variables named as in the source.                 *)
(***************************************************************************)
EXTENDS Integers, Sequences, FiniteSets, TLC

(***************************************************************************)
(* Bounds of the model.                                                    *)
(***************************************************************************)
MaxCollections == 2   \* collection elements under the root
MaxImages == 2        \* image elements under the collection
MaxDims == 3          \* dimension elements under the main image
MaxMacro == 3         \* dimension elements under the macro image
MaxDirs == 3          \* directories of the container

(***************************************************************************)
(* Program constants.                                                      *)
(***************************************************************************)
LEICA_DESCRIPTION == "Leica"
LEICA_DESCRIPTION_XMLNS == "http://www.leica-microsystems.com/scn/2010/10/01"
NULL == 0
NoMacro == -1         \* *out_macro_ifd = -1: "no macro image"
Uint16Mod == 65536    \* check_directory's parameter is uint16
Int32Max == 2147483647

(***************************************************************************)
(* Integer conversions of C.  uint16: the value modulo 2^16.  int32 / int: *)
(* the value itself when it fits in 32 bits, wrapped modulo 2^32           *)
(* otherwise.                                                              *)
(***************************************************************************)
ToUint16(d) == d % Uint16Mod

ToInt32(d) ==
  IF d >= -Int32Max - 1 /\ d <= Int32Max
    THEN d
    ELSE ((d + Int32Max + 1) % (2 * (Int32Max + 1))) - Int32Max - 1

(***************************************************************************)
(* The description document.  An attribute is absent (xmlGetProp gives     *)
(* NULL), holds text that is not a whole decimal number, or holds the      *)
(* decimal text of an integer.                                             *)
(***************************************************************************)
Absent == [k |-> "absent", v |-> 0]
Junk == [k |-> "junk", v |-> 0]
IntAttr(n) == [k |-> "int", v |-> n]

\* parse_int_prop: false when the attribute is missing, empty or has
\* trailing characters; otherwise true with the parsed value.
parse_int_prop(attr) == [ok |-> attr.k = "int", out |-> attr.v]

Dim(w, h, d) == [sizeX |-> IntAttr(w), sizeY |-> IntAttr(h), ifd |-> IntAttr(d)]
View(w, h) == [sizeX |-> IntAttr(w), sizeY |-> IntAttr(h)]

\* an image element: its view children, its pixels/dimension children and
\* the descriptive children PropertyHarvester looks for
Image(views, dims) == [views |-> views, dims |-> dims, device |-> TRUE, creationDate |-> TRUE, scanSettings |-> TRUE]

Collection(barcode, sx, sy, images) == [barcode |-> barcode, sizeX |-> sx, sizeY |-> sy, images |-> images]

\* the root element's namespace: xmlNode.ns is NULL or has an href
NoNs == [present |-> FALSE, href |-> ""]
Ns(href) == [present |-> TRUE, href |-> href]

Blob(marker, parses, ns, collections) == [marker |-> marker, parses |-> parses, ns |-> ns, collections |-> collections]

\* every sequence over S of length lo..hi
SeqsOf(S, lo, hi) == UNION {[1..n -> S] : n \in lo..hi}

(***************************************************************************)
(* The inputs.  A baseline well-formed slide, then families that each vary *)
(* one part of it.                                                         *)
(***************************************************************************)
CollSize == <<60, 40>>
CollW == CollSize[1]
CollH == CollSize[2]

GoodMainDims == <<Dim(100, 80, 2), Dim(500, 400, 0), Dim(300, 240, 1)>>
GoodMain == Image(<<View(500, 400)>>, GoodMainDims)
GoodMacro == Image(<<View(CollW, CollH)>>, <<Dim(30, 40, 1), Dim(50, 50, 2), Dim(40, 60, 0)>>)
GoodCollection == Collection(TRUE, IntAttr(CollW), IntAttr(CollH), <<GoodMain, GoodMacro>>)
GoodBlob == Blob(TRUE, TRUE, Ns(LEICA_DESCRIPTION_XMLNS), <<GoodCollection>>)
GoodDirs == <<"ok", "ok", "ok">>

NullAt == {"none", "context", "collection", "images", "view", "maindims", "macrodims"}

Input(tiled, tiff_result, osr, null_at, dirs, tagval) ==
  [tiled |-> tiled, tiff_result |-> tiff_result, osr |-> osr, null_at |-> null_at, dirs |-> dirs, tagval |-> tagval]

OtherNs ==
  { "http://www.leica-microsystems.com/scn/2010/10/0",
    "http://www.leica-microsystems.com/scn/2010/10/02",
    "http://www.leica-microsystems.com/scn/2010/10/01/",
    "http://www.aperio.com/" }

NsValues == {NoNs, Ns(LEICA_DESCRIPTION_XMLNS)} \cup {Ns(h) : h \in OtherNs}

HeaderInputs ==
  { Input(tiled, got, osr, "none", GoodDirs, Blob(marker, parses, ns, <<GoodCollection>>)) :
      tiled \in BOOLEAN, got \in BOOLEAN, osr \in BOOLEAN,
      marker \in BOOLEAN, parses \in BOOLEAN, ns \in NsValues }

NullInputs ==
  { Input(TRUE, TRUE, osr, n, GoodDirs, GoodBlob) : osr \in BOOLEAN, n \in NullAt }

CollAttrs == {Absent, Junk, IntAttr(CollW)}

CollectionVariants ==
  { Collection(b, sx, sy, <<GoodMain, GoodMacro>>) :
      b \in BOOLEAN, sx \in CollAttrs, sy \in {Absent, IntAttr(CollH)} }

CollectionInputs ==
  { Input(TRUE, TRUE, osr, "none", GoodDirs, Blob(TRUE, TRUE, Ns(LEICA_DESCRIPTION_XMLNS), cs)) :
      osr \in BOOLEAN, cs \in SeqsOf(CollectionVariants, 0, MaxCollections) }

ViewVariants ==
  { <<>>, <<View(CollW, CollH), View(CollW, CollH)>>,
    <<[sizeX |-> Absent, sizeY |-> IntAttr(CollH)]>>,
    <<[sizeX |-> IntAttr(CollW), sizeY |-> Junk]>>,
    <<View(CollW, CollH)>>, <<View(CollW, CollH + 1)>>,
    <<View(CollW - 1, CollH)>>, <<View(500, 400)>> }

ImageVariants ==
  { Image(vs, ds) : vs \in ViewVariants, ds \in {<<>>, <<Dim(100, 80, 0)>>} }

ImageInputs ==
  { Input(TRUE, TRUE, TRUE, "none", GoodDirs,
          Blob(TRUE, TRUE, Ns(LEICA_DESCRIPTION_XMLNS),
               <<Collection(TRUE, IntAttr(CollW), IntAttr(CollH), imgs)>>)) :
      imgs \in SeqsOf(ImageVariants, 0, MaxImages) }

MainDimVariants ==
  { Dim(100, 80, 2), Dim(500, 400, 0), Dim(300, 240, 1), Dim(500, 400, 1),
    [sizeX |-> Absent, sizeY |-> IntAttr(80), ifd |-> IntAttr(0)],
    [sizeX |-> IntAttr(100), sizeY |-> IntAttr(80), ifd |-> Junk] }

MainInputs ==
  { Input(TRUE, TRUE, TRUE, "none", GoodDirs,
          Blob(TRUE, TRUE, Ns(LEICA_DESCRIPTION_XMLNS),
               <<Collection(TRUE, IntAttr(CollW), IntAttr(CollH),
                            <<Image(<<View(500, 400)>>, ds), GoodMacro>>)>>)) :
      ds \in SeqsOf(MainDimVariants, 0, MaxDims) }

\* macro candidates: (sizeX, sizeY) pairs; candidate k of the sequence is
\* given ifd k - 1, so the chosen directory names the chosen candidate
MacroSizes ==
  { <<IntAttr(30), IntAttr(40)>>, <<IntAttr(50), IntAttr(50)>>,
    <<IntAttr(40), IntAttr(60)>>, <<IntAttr(60), IntAttr(40)>>,
    <<IntAttr(0), IntAttr(0)>>, <<IntAttr(-1), IntAttr(70)>>,
    <<IntAttr(30), Absent>> }

MacroDimsOf(sizes) ==
  [k \in 1..Len(sizes) |-> [sizeX |-> sizes[k][1], sizeY |-> sizes[k][2], ifd |-> IntAttr(k - 1)]]

MacroInputs ==
  { Input(TRUE, TRUE, TRUE, "none", GoodDirs,
          Blob(TRUE, TRUE, Ns(LEICA_DESCRIPTION_XMLNS),
               <<Collection(TRUE, IntAttr(CollW), IntAttr(CollH),
                            <<Image(<<View(CollW, CollH)>>, MacroDimsOf(sizes)), GoodMain>>)>>)) :
      sizes \in SeqsOf(MacroSizes, 0, MaxMacro) }

\* containers: every directory either decodable, with an unreadable
\* compression tag, or with a compression no codec is configured for
DirStatus == {"ok", "nocomp", "badcodec"}
Containers == SeqsOf(DirStatus, 0, MaxDirs)

MainIfdLists == {<<0>>, <<0, 1>>, <<1, 0>>, <<1, 1>>, <<Uint16Mod + 1>>, <<0, Uint16Mod + 1>>}
MacroIfds == {NoMacro, 2, Uint16Mod + 2}

MainDimsOfIfds(ids) == [k \in 1..Len(ids) |-> Dim(100 * k, 80 * k, ids[k])]

DirectoryInputs ==
  { Input(TRUE, TRUE, TRUE, "none", dirs,
          Blob(TRUE, TRUE, Ns(LEICA_DESCRIPTION_XMLNS),
               <<Collection(TRUE, IntAttr(CollW), IntAttr(CollH),
                            <<Image(<<View(500, 400)>>, MainDimsOfIfds(ids))>>
                              \o macro)>>)) :
      dirs \in Containers, ids \in MainIfdLists,
      macro \in {<<>>} \cup {<<Image(<<View(CollW, CollH)>>, <<Dim(CollW, CollH, m)>>)>> : m \in MacroIfds} }

Inputs == HeaderInputs \cup NullInputs \cup CollectionInputs \cup ImageInputs
            \cup MainInputs \cup MacroInputs \cup DirectoryInputs

(***************************************************************************)
(* State.                                                                  *)
(***************************************************************************)
VARIABLES
  in,                 \* the container, the host object and the description
  pc,                 \* position in _openslide_try_leica / parse_xml_description
  heap,               \* every object allocated so far, with its release state
  doc, context, images_result, result,         \* parse_xml_description locals
  l, main_image, macro_image,
  collection_width, collection_height,
  macro_width, macro_height,
  i, success,
  macroIFD, level_list, level_count,           \* _openslide_try_leica locals
  levels, levels_data,
  curdir,             \* the container's current directory
  checked,            \* the check_directory calls made so far
  properties,         \* osr->properties
  associated_images,  \* osr->associated_images
  writes,             \* every insert made into the two host tables
  warnings,           \* g_warning messages emitted
  ops,                \* the _openslide_add_tiff_ops call, once made
  retval              \* the value _openslide_try_leica returned

xmlVars == <<doc, context, images_result, result>>
classVars == <<main_image, macro_image, collection_width, collection_height>>
macroVars == <<macro_width, macro_height, macroIFD>>
listVars == <<l, level_list, level_count>>
arrVars == <<levels, levels_data>>
tiffVars == <<curdir, checked>>
hostVars == <<properties, associated_images, writes, ops>>

vars == <<in, pc, heap, xmlVars, classVars, macroVars, listVars, arrVars,
          tiffVars, hostVars, i, success, warnings, retval>>

(***************************************************************************)
(* The heap: allocation, release and use of an object.  A second release   *)
(* or a use after release is recorded in the object's state.               *)
(***************************************************************************)
Alloc(h, kind) == Append(h, [kind |-> kind, st |-> "live", directory_number |-> 0, width |-> 0])

Release(h, p) == [h EXCEPT ![p].st = IF @ = "live" THEN "freed" ELSE "double-free"]

Use(h, p) == [h EXCEPT ![p].st = IF @ = "live" THEN "live" ELSE "use-after-free"]

ReleaseIf(h, p) == IF p # NULL THEN Release(h, p) ELSE h

(***************************************************************************)
(* The host tables.                                                        *)
(***************************************************************************)
InsertProp(props, name, value) == {q \in props : q[1] # name} \cup {<<name, value>>}

RemoveProp(props, name) == {q \in props : q[1] # name}

\* the document nodes the fixed path queries reach
CollectionNodes == in.tagval.collections
CollectionNode == CollectionNodes[1]
ImageNodes == CollectionNode.images

Init ==
  /\ in \in Inputs
  /\ pc = "start"
  /\ heap = <<>>
  /\ doc = NULL /\ context = NULL /\ images_result = NULL /\ result = NULL
  /\ l = NULL /\ main_image = NULL /\ macro_image = NULL
  /\ collection_width = 0 /\ collection_height = 0
  /\ macro_width = 0 /\ macro_height = 0
  /\ i = 0 /\ success = FALSE
  /\ macroIFD = 0 /\ level_list = <<>> /\ level_count = 0
  /\ levels = NULL /\ levels_data = <<>>
  /\ curdir = 0 /\ checked = <<>>
  /\ properties = {} /\ associated_images = {} /\ writes = {}
  /\ warnings = {}
  /\ ops = [called |-> FALSE, level_count |-> 0, levels |-> <<>>]
  /\ retval = FALSE

(***************************************************************************)
(* The container.  Directory n is element n + 1 of in.dirs.                *)
(***************************************************************************)
TIFFSetDirectory(dirs, dir_num) == dir_num < Len(dirs)

\* check_directory(tiff, dir_num): the argument is converted to uint16; the
\* directory must exist, its compression tag must be readable and a codec
\* must be configured for it.  cur is the current directory afterwards.
check_directory(dirs, cur, d) ==
  LET dir_num == ToUint16(d) IN
    IF ~TIFFSetDirectory(dirs, dir_num)
      THEN [ok |-> FALSE, cur |-> cur, dir_num |-> dir_num, warn |-> "Can't find directory"]
    ELSE IF dirs[dir_num + 1] = "nocomp"
      THEN [ok |-> FALSE, cur |-> dir_num, dir_num |-> dir_num, warn |-> "Can't read compression scheme"]
    ELSE IF dirs[dir_num + 1] = "badcodec"
      THEN [ok |-> FALSE, cur |-> dir_num, dir_num |-> dir_num, warn |-> "Unsupported TIFF compression"]
    ELSE [ok |-> TRUE, cur |-> dir_num, dir_num |-> dir_num, warn |-> ""]

WarnIf(ws, r) == IF r.ok THEN ws ELSE ws \cup {r.warn}

\* mutant: the comparison is reversed, narrower first
width_compare_Ascending(la, lb) ==
  IF la.width < lb.width THEN -1
  ELSE IF la.width = lb.width THEN 0
  ELSE 1

\* width_compare: wider first
width_compare(la, lb) ==
  IF la.width > lb.width THEN -1
  ELSE IF la.width = lb.width THEN 0
  ELSE 1

\* what g_list_sort may return: a reordering of the list in which no
\* element compares after a later one
Bijections(n) == {f \in [1..n -> 1..n] : \A a, b \in 1..n : a # b => f[a] # f[b]}

g_list_sort(h, list) ==
  { [k \in 1..Len(list) |-> list[f[k]]] : f \in
      { g \in Bijections(Len(list)) :
          \A a, b \in 1..Len(list) : a < b => width_compare(h[list[g[a]]], h[list[g[b]]]) <= 0 } }

(***************************************************************************)
(* _openslide_try_leica, up to the call of parse_xml_description.          *)
(***************************************************************************)
ContainsMarker(tagval) == tagval.marker

Start ==
  /\ pc = "start"
  /\ IF ~in.tiled
       THEN pc' = "FAIL" /\ UNCHANGED <<macroIFD, level_count>>
     ELSE IF ~in.tiff_result \/ ~ContainsMarker(in.tagval)
       THEN pc' = "FAIL" /\ UNCHANGED <<macroIFD, level_count>>
     ELSE /\ pc' = "parse"
          /\ macroIFD' = NoMacro
          /\ level_count' = 0
  /\ UNCHANGED <<in, heap, xmlVars, classVars, macro_width, macro_height, l, level_list,
                 arrVars, tiffVars, hostVars, i, success, warnings, retval>>

(***************************************************************************)
(* parse_xml_description.                                                  *)
(***************************************************************************)
XmlParse ==
  /\ pc = "parse"
  /\ IF in.tagval.parses
       THEN heap' = Alloc(heap, "doc") /\ doc' = Len(heap) + 1 /\ pc' = "schema"
       ELSE UNCHANGED <<heap, doc>> /\ pc' = "PFAIL"
  /\ UNCHANGED <<in, context, images_result, result, classVars, macroVars, listVars,
                 arrVars, tiffVars, hostVars, i, success, warnings, retval>>

\* root_element->ns->href compared with the schema namespace.  With no
\* namespace on the root, ns is NULL and the read is undefined: the process
\* faults, or the comparison sees whatever lies there.
\* mutant: the namespace is not compared, any namespace is taken as the schema's
SchemaOutcomes_AnyNamespace(ns) ==
  IF ns.present THEN {"equal"} ELSE {"fault", "equal", "differs"}

SchemaOutcomes(ns) ==
  IF ns.present
    THEN {IF ns.href = LEICA_DESCRIPTION_XMLNS THEN "equal" ELSE "differs"}
    ELSE {"fault", "equal", "differs"}

Schema ==
  /\ pc = "schema"
  /\ \E o \in SchemaOutcomes(in.tagval.ns) :
       pc' = CASE o = "equal" -> "context"
               [] o = "differs" -> "PFAIL"
               [] OTHER -> "fault"
  /\ UNCHANGED <<in, heap, xmlVars, classVars, macroVars, listVars, arrVars,
                 tiffVars, hostVars, i, success, warnings, retval>>

NewContext ==
  /\ pc = "context"
  /\ IF in.null_at = "context"
       THEN /\ warnings' = warnings \cup {"xmlXPathNewContext failed"}
            /\ pc' = "PFAIL"
            /\ UNCHANGED <<heap, context>>
       ELSE /\ heap' = Alloc(heap, "context")
            /\ context' = Len(heap) + 1
            /\ pc' = "collection"
            /\ UNCHANGED warnings
  /\ UNCHANGED <<in, doc, images_result, result, classVars, macroVars, listVars,
                 arrVars, tiffVars, hostVars, i, success, retval>>

\* xmlXPathEvalExpression: a new result object, or NULL
EvalHeap(h, at) == IF in.null_at = at THEN h ELSE Alloc(h, "xpath")
EvalPtr(h, at) == IF in.null_at = at THEN NULL ELSE Len(h) + 1

FindCollection ==
  /\ pc = "collection"
  /\ LET h1 == EvalHeap(heap, "collection")
         r == EvalPtr(heap, "collection")
     IN IF r = NULL \/ Len(CollectionNodes) # 1
          THEN /\ warnings' = warnings \cup {"Found multiple collection elements"}
               /\ heap' = h1 /\ result' = r /\ pc' = "PFAIL"
          ELSE /\ heap' = Release(h1, r) /\ result' = NULL /\ pc' = "barcode"
               /\ UNCHANGED warnings
  /\ UNCHANGED <<in, doc, context, images_result, classVars, macroVars, listVars,
                 arrVars, tiffVars, hostVars, i, success, retval>>

\* set_prop_from_content / set_prop_from_attribute: the query result is
\* allocated and released inside; the property is inserted when the host
\* object exists and the node (attribute) was found
SetPropHeap(h) == Release(Alloc(h, "xpath"), Len(h) + 1)

SetProp(tab, present, name, value) ==
  IF in.osr /\ present THEN InsertProp(tab, name, value) ELSE tab

SetPropWrites(ws, present, name) ==
  IF in.osr /\ present THEN ws \cup {<<"properties", name>>} ELSE ws

ReadCollection ==
  /\ pc = "barcode"
  /\ heap' = SetPropHeap(heap)
  /\ properties' = SetProp(properties, CollectionNode.barcode, "leica.barcode", "barcode text")
  /\ writes' = SetPropWrites(writes, CollectionNode.barcode, "leica.barcode")
  /\ LET sx == parse_int_prop(CollectionNode.sizeX)
         sy == parse_int_prop(CollectionNode.sizeY)
     IN IF ~sx.ok
          THEN /\ warnings' = warnings \cup {"Property sizeX not found"}
               /\ pc' = "PFAIL"
               /\ UNCHANGED <<collection_width, collection_height>>
        ELSE IF ~sy.ok
          THEN /\ warnings' = warnings \cup {"Property sizeY not found"}
               /\ pc' = "PFAIL"
               /\ collection_width' = sx.out
               /\ UNCHANGED collection_height
        ELSE /\ collection_width' = sx.out
             /\ collection_height' = sy.out
             /\ pc' = "images"
             /\ UNCHANGED warnings
  /\ UNCHANGED <<in, xmlVars, main_image, macro_image, macroVars, listVars, arrVars,
                 tiffVars, associated_images, ops, i, success, retval>>

FindImages ==
  /\ pc = "images"
  /\ LET h1 == EvalHeap(heap, "images")
         r == EvalPtr(heap, "images")
     IN /\ heap' = h1
        /\ images_result' = r
        /\ IF r = NULL \/ Len(ImageNodes) = 0
             THEN /\ warnings' = warnings \cup {"Can't find any images"}
                  /\ pc' = "PFAIL"
                  /\ UNCHANGED i
             ELSE /\ i' = 0 /\ pc' = "view" /\ UNCHANGED warnings
  /\ UNCHANGED <<in, doc, context, result, classVars, macroVars, listVars, arrVars,
                 tiffVars, hostVars, success, retval>>

\* mutant: only the width is compared with the collection's
IsMacroView_WidthOnly(test_width, test_height, cw, ch) == test_width = cw

\* the macro's view has exactly the collection's size
IsMacroView(test_width, test_height, cw, ch) == test_width = cw /\ test_height = ch

ClassifyImage ==
  /\ pc = "view"
  /\ i < Len(ImageNodes)
  /\ LET image == i + 1
         views == ImageNodes[image].views
         h1 == EvalHeap(heap, "view")
         r == EvalPtr(heap, "view")
     IN IF r = NULL \/ Len(views) # 1
          THEN /\ warnings' = warnings \cup {"Can't find view node"}
               /\ heap' = h1 /\ result' = r /\ pc' = "PFAIL"
               /\ UNCHANGED <<main_image, macro_image, i>>
        ELSE IF ~parse_int_prop(views[1].sizeX).ok
          THEN /\ warnings' = warnings \cup {"Property sizeX not found"}
               /\ heap' = h1 /\ result' = r /\ pc' = "PFAIL"
               /\ UNCHANGED <<main_image, macro_image, i>>
        ELSE IF ~parse_int_prop(views[1].sizeY).ok
          THEN /\ warnings' = warnings \cup {"Property sizeY not found"}
               /\ heap' = h1 /\ result' = r /\ pc' = "PFAIL"
               /\ UNCHANGED <<main_image, macro_image, i>>
        ELSE /\ heap' = Release(h1, r)
             /\ result' = NULL
             /\ IF IsMacroView(parse_int_prop(views[1].sizeX).out,
                               parse_int_prop(views[1].sizeY).out,
                               collection_width, collection_height)
                  THEN IF macro_image # NULL
                         THEN /\ warnings' = warnings \cup {"Found multiple macro images"}
                              /\ pc' = "PFAIL"
                              /\ UNCHANGED <<main_image, macro_image, i>>
                         ELSE /\ macro_image' = image
                              /\ i' = i + 1
                              /\ UNCHANGED <<main_image, pc, warnings>>
                  ELSE IF main_image # NULL
                         THEN /\ warnings' = warnings \cup {"Found multiple main images"}
                              /\ pc' = "PFAIL"
                              /\ UNCHANGED <<main_image, macro_image, i>>
                         ELSE /\ main_image' = image
                              /\ i' = i + 1
                              /\ UNCHANGED <<macro_image, pc, warnings>>
  /\ UNCHANGED <<in, doc, context, images_result, collection_width, collection_height,
                 macroVars, listVars, arrVars, tiffVars, hostVars, success, retval>>

FindMainDimensions ==
  /\ pc = "view"
  /\ i >= Len(ImageNodes)
  /\ IF main_image = NULL
       THEN /\ warnings' = warnings \cup {"Can't find main image node"}
            /\ pc' = "PFAIL"
            /\ UNCHANGED <<heap, result, i>>
       ELSE LET h1 == EvalHeap(heap, "maindims")
                r == EvalPtr(heap, "maindims")
            IN /\ heap' = h1
               /\ result' = r
               /\ IF r = NULL \/ Len(ImageNodes[main_image].dims) = 0
                    THEN /\ warnings' = warnings \cup {"Can't find any dimensions in the main image"}
                         /\ pc' = "PFAIL"
                         /\ UNCHANGED i
                    ELSE /\ i' = 0 /\ pc' = "level" /\ UNCHANGED warnings
  /\ UNCHANGED <<in, doc, context, images_result, classVars, macroVars, listVars,
                 arrVars, tiffVars, hostVars, success, retval>>

g_list_prepend(list, p) == <<p>> \o list

CollectLevel ==
  /\ pc = "level"
  /\ i < Len(ImageNodes[main_image].dims)
  /\ LET node == ImageNodes[main_image].dims[i + 1]
         h1 == Alloc(heap, "level")
         p == Len(heap) + 1
         w == parse_int_prop(node.sizeX)
         d == parse_int_prop(node.ifd)
     IN /\ l' = p
        /\ IF ~w.ok
             THEN /\ warnings' = warnings \cup {"Property sizeX not found"}
                  /\ heap' = h1 /\ pc' = "PFAIL"
                  /\ UNCHANGED <<level_list, i>>
           ELSE IF ~d.ok
             THEN /\ warnings' = warnings \cup {"Property ifd not found"}
                  /\ heap' = [h1 EXCEPT ![p].width = w.out] /\ pc' = "PFAIL"
                  /\ UNCHANGED <<level_list, i>>
           ELSE /\ heap' = [h1 EXCEPT ![p].width = w.out, ![p].directory_number = d.out]
                /\ level_list' = g_list_prepend(level_list, p)
                /\ i' = i + 1
                /\ UNCHANGED <<pc, warnings>>
  /\ UNCHANGED <<in, xmlVars, classVars, macroVars, level_count, arrVars, tiffVars,
                 hostVars, success, retval>>

LevelsCollected ==
  /\ pc = "level"
  /\ i >= Len(ImageNodes[main_image].dims)
  /\ l' = NULL
  /\ level_count' = Len(ImageNodes[main_image].dims)
  /\ heap' = Release(heap, result)
  /\ result' = NULL
  /\ pc' = "props"
  /\ UNCHANGED <<in, doc, context, images_result, classVars, macroVars, level_list,
                 arrVars, tiffVars, hostVars, i, success, warnings, retval>>

\* the six properties read from the main image, in order
MainProps(image) ==
  << <<"leica.device-model", image.device>>,
     <<"leica.device-version", image.device>>,
     <<"leica.creation-date", image.creationDate>>,
     <<"leica.objective", image.scanSettings>>,
     <<"leica.aperture", image.scanSettings>>,
     <<"leica.illumination-source", image.scanSettings>> >>

HarvestProps ==
  /\ pc = "props"
  /\ LET ps == MainProps(ImageNodes[main_image])
         found == {ps[k][1] : k \in {j \in 1..Len(ps) : ps[j][2]}}
     IN /\ properties' = IF in.osr
                           THEN {q \in properties : q[1] \notin found} \cup {<<n, "text">> : n \in found}
                           ELSE properties
        /\ writes' = IF in.osr THEN writes \cup {<<"properties", n>> : n \in found} ELSE writes
  /\ heap' = SetPropHeap(SetPropHeap(SetPropHeap(SetPropHeap(SetPropHeap(SetPropHeap(heap))))))
  /\ pc' = "macro"
  /\ UNCHANGED <<in, xmlVars, classVars, macroVars, listVars, arrVars, tiffVars,
                 associated_images, ops, i, success, warnings, retval>>

FindMacroDimensions ==
  /\ pc = "macro"
  /\ IF macro_image = NULL
       THEN /\ success' = TRUE /\ pc' = "PFAIL"
            /\ UNCHANGED <<heap, result, i, warnings>>
       ELSE LET h1 == EvalHeap(heap, "macrodims")
                r == EvalPtr(heap, "macrodims")
            IN /\ heap' = h1
               /\ result' = r
               /\ IF r = NULL \/ Len(ImageNodes[macro_image].dims) = 0
                    THEN /\ warnings' = warnings \cup {"Can't find any dimensions in the macro image"}
                         /\ pc' = "PFAIL"
                         /\ UNCHANGED <<i, success>>
                    ELSE /\ i' = 0 /\ pc' = "macrodim" /\ UNCHANGED <<warnings, success>>
  /\ UNCHANGED <<in, doc, context, images_result, classVars, macroVars, listVars,
                 arrVars, tiffVars, hostVars, retval>>

\* mutant: the candidate replaces the running best when its area is no smaller
ReplacesBest_ByArea(test_width, test_height, best_width, best_height) ==
  test_width * test_height >= best_width * best_height

\* the candidate replaces the running best when it is at least as wide and
\* at least as high
ReplacesBest(test_width, test_height, best_width, best_height) ==
  test_width >= best_width /\ test_height >= best_height

SelectMacro ==
  /\ pc = "macrodim"
  /\ i < Len(ImageNodes[macro_image].dims)
  /\ LET node == ImageNodes[macro_image].dims[i + 1]
         w == parse_int_prop(node.sizeX)
         h == parse_int_prop(node.sizeY)
         d == parse_int_prop(node.ifd)
     IN IF ~w.ok \/ ~h.ok \/ ~d.ok
          THEN /\ warnings' = warnings \cup
                     {IF ~w.ok THEN "Property sizeX not found"
                      ELSE IF ~h.ok THEN "Property sizeY not found"
                      ELSE "Property ifd not found"}
               /\ pc' = "PFAIL"
               /\ UNCHANGED <<macroVars, i>>
          ELSE /\ IF ReplacesBest(w.out, h.out, macro_width, macro_height)
                    THEN /\ macro_width' = w.out
                         /\ macro_height' = h.out
                         /\ macroIFD' = ToInt32(d.out)
                    ELSE UNCHANGED macroVars
               /\ i' = i + 1
               /\ UNCHANGED <<pc, warnings>>
  /\ UNCHANGED <<in, heap, xmlVars, classVars, listVars, arrVars, tiffVars, hostVars,
                 success, retval>>

MacroSelected ==
  /\ pc = "macrodim"
  /\ i >= Len(ImageNodes[macro_image].dims)
  /\ heap' = Release(heap, result)
  /\ result' = NULL
  /\ success' = TRUE
  /\ pc' = "PFAIL"
  /\ UNCHANGED <<in, doc, context, images_result, classVars, macroVars, listVars,
                 arrVars, tiffVars, hostVars, i, warnings, retval>>

\* mutant: the level record not yet in the list is not released
ParseRelease_LeakLevel(h, lp, res, imgs, ctx, d) ==
  ReleaseIf(ReleaseIf(ReleaseIf(ReleaseIf(h, res), imgs), ctx), d)

\* the FAIL label of parse_xml_description: release what is held, return
ParseRelease(h, lp, res, imgs, ctx, d) ==
  ReleaseIf(ReleaseIf(ReleaseIf(ReleaseIf(ReleaseIf(h, lp), res), imgs), ctx), d)

ParseCleanup ==
  /\ pc = "PFAIL"
  /\ heap' = ParseRelease(heap, l, result, images_result, context, doc)
  /\ pc' = IF success THEN "vendor" ELSE "FAIL"
  /\ UNCHANGED <<in, xmlVars, classVars, macroVars, listVars, arrVars, tiffVars,
                 hostVars, i, success, warnings, retval>>

(***************************************************************************)
(* _openslide_try_leica, after parse_xml_description returned true.        *)
(***************************************************************************)
SetVendor ==
  /\ pc = "vendor"
  /\ properties' = IF in.osr THEN InsertProp(properties, "openslide.vendor", "leica") ELSE properties
  /\ writes' = IF in.osr THEN writes \cup {<<"properties", "openslide.vendor">>} ELSE writes
  /\ pc' = "addmacro"
  /\ UNCHANGED <<in, heap, xmlVars, classVars, macroVars, listVars, arrVars, tiffVars,
                 associated_images, ops, i, success, warnings, retval>>

\* the macro directory is validated, and registered when valid
MacroAccepted(ifd, r) == ifd # NoMacro /\ r.ok

AddMacro ==
  /\ pc = "addmacro"
  /\ LET r == check_directory(in.dirs, curdir, macroIFD)
     IN IF macroIFD # NoMacro
          THEN /\ curdir' = r.cur
               /\ checked' = Append(checked, [d |-> macroIFD, dir_num |-> r.dir_num, ok |-> r.ok, what |-> "macro"])
               /\ warnings' = WarnIf(warnings, r)
               /\ IF MacroAccepted(macroIFD, r) /\ in.osr
                    THEN /\ associated_images' = associated_images \cup {<<"macro", r.cur>>}
                         /\ writes' = writes \cup {<<"associated_images", "macro">>}
                    ELSE UNCHANGED <<associated_images, writes>>
          ELSE UNCHANGED <<curdir, checked, warnings, associated_images, writes>>
  /\ pc' = "sort"
  /\ UNCHANGED <<in, heap, xmlVars, classVars, macroVars, listVars, arrVars,
                 properties, ops, i, success, retval>>

SortLevels ==
  /\ pc = "sort"
  /\ level_list' \in g_list_sort(heap, level_list)
  /\ heap' = Alloc(heap, "levels")
  /\ levels' = Len(heap) + 1
  /\ levels_data' = <<>>
  /\ i' = 0
  /\ pc' = "copy"
  /\ UNCHANGED <<in, xmlVars, classVars, macroVars, l, level_count, tiffVars, hostVars,
                 success, warnings, retval>>

\* one round of the copy loop: validate the head of the list, unlink it,
\* store its directory number as int32 and release the record
CopyLevel ==
  /\ pc = "copy"
  /\ i < level_count
  /\ LET lp == Head(level_list)
         r == check_directory(in.dirs, curdir, heap[lp].directory_number)
     IN /\ curdir' = r.cur
        /\ checked' = Append(checked, [d |-> heap[lp].directory_number, dir_num |-> r.dir_num, ok |-> r.ok, what |-> "level"])
        /\ warnings' = WarnIf(warnings, r)
        /\ IF ~r.ok
             THEN /\ pc' = "FAIL"
                  /\ heap' = Use(heap, lp)
                  /\ UNCHANGED <<level_list, levels_data, i>>
             ELSE /\ level_list' = Tail(level_list)
                  /\ levels_data' = Append(levels_data, ToInt32(heap[lp].directory_number))
                  /\ heap' = Release(Use(Use(heap, lp), levels), lp)
                  /\ i' = i + 1
                  /\ UNCHANGED pc
  /\ UNCHANGED <<in, xmlVars, classVars, macroVars, l, level_count, levels, hostVars,
                 success, retval>>

\* _openslide_add_tiff_ops takes the level array over; the raw description
\* properties are removed
AddOps ==
  /\ pc = "copy"
  /\ i >= level_count
  /\ level_list = <<>>                      \* g_assert(level_list == NULL)
  /\ ops' = [called |-> TRUE, level_count |-> level_count, levels |-> levels_data]
  /\ heap' = [heap EXCEPT ![levels].st = IF @ = "live" THEN "adopted" ELSE "use-after-free"]
  /\ properties' = IF in.osr
                     THEN RemoveProp(RemoveProp(properties, "openslide.comment"), "tiff.ImageDescription")
                     ELSE properties
  /\ retval' = TRUE
  /\ pc' = "done"
  /\ UNCHANGED <<in, xmlVars, classVars, macroVars, listVars, arrVars, tiffVars,
                 associated_images, writes, i, success, warnings>>

\* the FAIL label of _openslide_try_leica
RECURSIVE ReleaseList(_, _)
ReleaseList(h, list) ==
  IF list = <<>> THEN h ELSE ReleaseList(Release(h, Head(list)), Tail(list))

FailRelease(h, list, arr) == ReleaseIf(ReleaseList(h, list), arr)

Fail ==
  /\ pc = "FAIL"
  /\ heap' = FailRelease(heap, level_list, levels)
  /\ level_list' = <<>>
  /\ retval' = FALSE
  /\ pc' = "done"
  /\ UNCHANGED <<in, xmlVars, classVars, macroVars, l, level_count, arrVars, tiffVars,
                 hostVars, i, success, warnings>>

Next ==
  \/ Start \/ XmlParse \/ Schema \/ NewContext \/ FindCollection \/ ReadCollection
  \/ FindImages \/ ClassifyImage \/ FindMainDimensions \/ CollectLevel
  \/ LevelsCollected \/ HarvestProps \/ FindMacroDimensions \/ SelectMacro
  \/ MacroSelected \/ ParseCleanup \/ SetVendor \/ AddMacro \/ SortLevels
  \/ CopyLevel \/ AddOps \/ Fail

Spec == Init /\ [][Next]_vars

(***************************************************************************)
(* What the claims speak of, stated over the input.                        *)
(***************************************************************************)
Done == pc = "done"

HasBlob == in.tiled /\ in.tiff_result
MarkerFound == HasBlob /\ in.tagval.marker
Parsed == MarkerFound /\ in.tagval.parses
SchemaMatched == Parsed /\ in.tagval.ns = Ns(LEICA_DESCRIPTION_XMLNS)

NoHostWrite == writes = {} /\ properties = {} /\ associated_images = {}

\* directory d exists in the container and its compression is supported
ValidDir(d) == d >= 0 /\ d < Len(in.dirs) /\ in.dirs[d + 1] = "ok"

IntAttrs(node, names) == \A n \in names : node[n].k = "int"

\* exact equality with the collection's size on both axes: macro candidate
ViewOk(img) == Len(img.views) = 1 /\ IntAttrs(img.views[1], {"sizeX", "sizeY"})
SameAsCollection(img) ==
  /\ img.views[1].sizeX.v = CollectionNode.sizeX.v
  /\ img.views[1].sizeY.v = CollectionNode.sizeY.v
MacroNodes == {k \in 1..Len(ImageNodes) : SameAsCollection(ImageNodes[k])}
MainNodes == {k \in 1..Len(ImageNodes) : ~SameAsCollection(ImageNodes[k])}

CollectionOk ==
  /\ Len(CollectionNodes) = 1
  /\ IntAttrs(CollectionNode, {"sizeX", "sizeY"})
  /\ \A k \in 1..Len(ImageNodes) : ViewOk(ImageNodes[k])

TheMain == ImageNodes[CHOOSE k \in MainNodes : TRUE]
TheMacro == ImageNodes[CHOOSE k \in MacroNodes : TRUE]

\* one collection, one main image with N >= 1 complete dimension nodes, at
\* most one macro image, itself complete; every library call succeeds
WellFormed ==
  /\ SchemaMatched
  /\ in.null_at = "none"
  /\ CollectionOk
  /\ Cardinality(MainNodes) = 1
  /\ Cardinality(MacroNodes) <= 1
  /\ Len(TheMain.dims) >= 1
  /\ \A k \in 1..Len(TheMain.dims) : IntAttrs(TheMain.dims[k], {"sizeX", "ifd"})
  /\ MacroNodes # {} =>
       /\ Len(TheMacro.dims) >= 1
       /\ \A k \in 1..Len(TheMacro.dims) : IntAttrs(TheMacro.dims[k], {"sizeX", "sizeY", "ifd"})

MainDirsValid == \A k \in 1..Len(TheMain.dims) : ValidDir(TheMain.dims[k].ifd.v)

\* the level array lists every dimension node of the main image once,
\* wider nodes first
IsWidthOrdering(arr, dims) ==
  /\ Len(arr) = Len(dims)
  /\ \E f \in Bijections(Len(dims)) :
       /\ \A k \in 1..Len(dims) : arr[k] = dims[f[k]].ifd.v
       /\ \A a, b \in 1..Len(dims) : a < b => dims[f[a]].sizeX.v >= dims[f[b]].sizeX.v

\* the selection rule, stated as a set: candidate k is a replacer exactly
\* when it is at least as wide and as high as the latest replacer before it
\* (or as (0, 0) when there is none)
MaxOf(S) == CHOOSE m \in S : \A x \in S : x <= m
BestBefore(c, S, k) ==
  LET P == {j \in S : j < k}
  IN IF P = {} THEN <<0, 0>> ELSE <<c[MaxOf(P)].sizeX.v, c[MaxOf(P)].sizeY.v>>
Replacers(c) ==
  CHOOSE S \in SUBSET (1..Len(c)) :
    \A k \in 1..Len(c) :
      k \in S <=> /\ c[k].sizeX.v >= BestBefore(c, S, k)[1]
                  /\ c[k].sizeY.v >= BestBefore(c, S, k)[2]
ChosenMacroIfd(c) ==
  IF Replacers(c) = {} THEN NoMacro ELSE c[MaxOf(Replacers(c))].ifd.v

AfterParse == pc \in {"vendor", "addmacro", "sort", "copy", "done"} /\ success

(***************************************************************************)
(* C1: a blob without the marker string, or with the marker and a root     *)
(* namespace other than the schema namespace, makes detection return       *)
(* false without any write to the property table or the associated-image   *)
(* store.                                                                  *)
(***************************************************************************)
C1_Rejected ==
  \/ (in.tiff_result /\ ~in.tagval.marker)
  \/ (in.tiff_result /\ in.tagval.marker /\ in.tagval.parses
        /\ in.tagval.ns.present /\ in.tagval.ns.href # LEICA_DESCRIPTION_XMLNS)

C1_NotLeicaNoWrites ==
  C1_Rejected =>
    /\ NoHostWrite
    /\ ~ops.called
    /\ pc # "fault"
    /\ Done => retval = FALSE

C1_Witness ==
  /\ Done /\ retval = FALSE /\ in.osr /\ Parsed
  /\ in.tagval.ns = Ns("http://www.leica-microsystems.com/scn/2010/10/0")
  /\ heap # <<>>

(***************************************************************************)
(* C2: whenever detection returns false after the schema namespace         *)
(* matched, the host tables hold no write made by the attempt.             *)
(***************************************************************************)
C2_FailedAttemptWritesNothing ==
  (SchemaMatched /\ Done /\ retval = FALSE) => NoHostWrite

(***************************************************************************)
(* C3: for a well-formed document whose N main directories are all valid,  *)
(* detection returns true, the level array handed to the decoder lists the *)
(* N declared directory ids once each in order of non-increasing width,    *)
(* and the intermediate list is empty.                                     *)
(***************************************************************************)
C3_SortedLevels ==
  (WellFormed /\ MainDirsValid) =>
    /\ pc # "fault"
    /\ Done =>
         /\ retval = TRUE
         /\ ops.called
         /\ ops.level_count = Len(TheMain.dims)
         /\ IsWidthOrdering(ops.levels, TheMain.dims)
         /\ level_list = <<>>

C3_Witness ==
  /\ Done /\ retval = TRUE
  /\ WellFormed /\ MainDirsValid
  /\ TheMain.dims = GoodMainDims
  /\ ops.levels = <<0, 1, 2>>

(***************************************************************************)
(* C4: if any main-pyramid directory is missing or has an unsupported      *)
(* compression, detection returns false and the decoder adoption call is   *)
(* never made.                                                             *)
(***************************************************************************)
C4_BadMainDirectoryFails ==
  (WellFormed /\ ~MainDirsValid) =>
    /\ ~ops.called
    /\ Done => retval = FALSE

(***************************************************************************)
(* C5: if the selected macro directory is invalid while every main         *)
(* directory is valid, detection returns true with the full pyramid, a     *)
(* warning is emitted and no macro entry is written; a macro entry is      *)
(* written only for a valid macro directory.                               *)
(***************************************************************************)
C5_MacroFailureIsSoft ==
  (WellFormed /\ MainDirsValid /\ MacroNodes # {}) =>
    LET m == ChosenMacroIfd(TheMacro.dims)
    IN /\ <<"associated_images", "macro">> \in writes => ValidDir(m)
       /\ (Done /\ ~ValidDir(m)) =>
            /\ retval = TRUE
            /\ IsWidthOrdering(ops.levels, TheMain.dims)
            /\ warnings # {}
            /\ associated_images = {}

(***************************************************************************)
(* C6: macro selection keeps a running best starting at (0, 0), replaced   *)
(* only by a candidate at least as wide and at least as high; the macro    *)
(* directory is that of the last candidate that replaced the best.         *)
(***************************************************************************)
C6_MacroSelection ==
  (AfterParse /\ macro_image # NULL) =>
    macroIFD = ChosenMacroIfd(ImageNodes[macro_image].dims)

C6_Witness ==
  /\ Done
  /\ macro_image # NULL
  /\ Len(ImageNodes[macro_image].dims) = 3
  /\ ImageNodes[macro_image].dims[1] = Dim(30, 40, 0)
  /\ ImageNodes[macro_image].dims[2] = Dim(50, 50, 1)
  /\ ImageNodes[macro_image].dims[3] = Dim(40, 60, 2)
  /\ macroIFD = 1

(***************************************************************************)
(* C7: detection succeeds only when the sub-images, classified by exact    *)
(* equality of the view size with the collection size, are exactly one     *)
(* main image and at most one macro image.                                 *)
(***************************************************************************)
C7_OneMainAtMostOneMacro ==
  ops.called =>
    /\ CollectionOk
    /\ Cardinality(MainNodes) = 1
    /\ Cardinality(MacroNodes) <= 1
    /\ main_image \in MainNodes
    /\ macro_image # NULL => macro_image \in MacroNodes

C7_Witness ==
  /\ Done /\ retval = TRUE
  /\ Cardinality(MainNodes) = 1 /\ Cardinality(MacroNodes) = 1
  /\ main_image = 2 /\ macro_image = 1

(***************************************************************************)
(* C8: on every exit path every resource acquired is released exactly      *)
(* once: no leak, no second release, no use after release.  On success the *)
(* level array is the decoder's.                                           *)
(***************************************************************************)
Objects == DOMAIN heap
InList(p) == \E k \in 1..Len(level_list) : level_list[k] = p

C8_ResourcesReleasedOnce ==
  /\ \A p \in Objects : heap[p].st \notin {"double-free", "use-after-free"}
  /\ pc \in {"vendor", "addmacro", "sort", "copy", "FAIL", "done"} =>
       \A p \in Objects :
         /\ heap[p].kind \in {"doc", "context", "xpath"} => heap[p].st = "freed"
         /\ (heap[p].kind = "level" /\ heap[p].st = "live") => InList(p)
  /\ Done =>
       \A p \in Objects :
         \/ heap[p].st = "freed"
         \/ heap[p].kind = "levels" /\ heap[p].st = "adopted" /\ retval = TRUE

C8_Witness ==
  /\ Done /\ retval = FALSE
  /\ l # NULL
  /\ \E p \in Objects : heap[p].kind = "level" /\ p # l
  /\ \A p \in Objects : heap[p].st = "freed"

(***************************************************************************)
(* C9: for every directory id d read from an ifd attribute, the directory  *)
(* number the validator checks and the one committed both equal d, so      *)
(* every committed id is an id that passed validation.                     *)
(***************************************************************************)
C9_IdsPreserved ==
  /\ \A k \in 1..Len(checked) : checked[k].ok => checked[k].dir_num = checked[k].d
  /\ \A j \in 1..Len(levels_data) :
       \E k \in 1..Len(checked) :
         checked[k].ok /\ checked[k].what = "level" /\ checked[k].dir_num = levels_data[j]

(***************************************************************************)
(* C10: a blob with the marker that parses but whose root element has no   *)
(* namespace is rejected without a fault: false, and no write.             *)
(***************************************************************************)
C10_NoNamespaceRejected ==
  (Parsed /\ ~in.tagval.ns.present) =>
    /\ pc # "fault"
    /\ NoHostWrite
    /\ ~ops.called
    /\ Done => retval = FALSE

====
